---- MODULE Spec2Model ----
(***************************************************************************)
(* Model of src/src/token_pnl_analyzer.py (class TokenPnLAnalyzer) and of  *)
(* its caller src/src/app.py.                                              *)
(*                                                                         *)
(* Python floats are modelled as exact rationals [n |-> _, d |-> _] kept   *)
(* in lowest terms, so equal quantities are equal records.  Amounts that   *)
(* the code divides by 1e18 (wei) are carried in ETH already.              *)
(***************************************************************************)
EXTENDS Integers, Sequences, FiniteSets, TLC

(***************************************************************************)
(* Bounds of the model.                                                    *)
(***************************************************************************)
\* number of distinct transaction hashes on the modelled ledger
MaxTx == 2

\* how many times a caller re-invokes the classifier for one hash
MaxClassify == 2

\* how many registry and conversion calls a caller makes
MaxCalls == 2

\* how many /analyze requests the web process serves at the same time
MaxRequests == 2

(***************************************************************************)
(* Exact arithmetic standing for Python float arithmetic.                  *)
(***************************************************************************)
Abs(x) ==
  IF x < 0 THEN -x ELSE x

RECURSIVE GCD(_, _)
GCD(a, b) ==
  IF b = 0 THEN a ELSE GCD(b, a % b)

\* the rational n/d (d > 0) in lowest terms
R(n, d) ==
  LET g == GCD(Abs(n), d)
  IN  IF n = 0 THEN [n |-> 0, d |-> 1] ELSE [n |-> n \div g, d |-> d \div g]

Zero ==
  R(0, 1)

I(k) ==
  R(k, 1)

RAdd(a, b) ==
  LET g == GCD(a.d, b.d)
  IN  R(a.n * (b.d \div g) + b.n * (a.d \div g), (a.d \div g) * b.d)

RNeg(a) ==
  [n |-> -a.n, d |-> a.d]

RSub(a, b) ==
  RAdd(a, RNeg(b))

RMul(a, b) ==
  LET g1 == GCD(Abs(a.n), b.d)
      g2 == GCD(Abs(b.n), a.d)
  IN  IF a.n = 0 \/ b.n = 0 THEN Zero
      ELSE R((a.n \div g1) * (b.n \div g2), (a.d \div g2) * (b.d \div g1))

\* a / b for b # 0
RDiv(a, b) ==
  IF b.n > 0 THEN RMul(a, [n |-> b.d, d |-> b.n])
  ELSE RMul(a, [n |-> -b.d, d |-> -b.n])

RGt(a, b) ==
  a.n * b.d > b.n * a.d

RLt(a, b) ==
  RGt(b, a)

RECURSIVE Pow10(_)
Pow10(k) ==
  IF k = 0 THEN 1 ELSE 10 * Pow10(k - 1)

RECURSIVE RSum(_)
RSum(s) ==
  IF s = <<>> THEN Zero ELSE RAdd(Head(s), RSum(Tail(s)))

(***************************************************************************)
(* Addresses.  The ledger service reports addresses in lower case; the     *)
(* analyzer is called with, and holds, checksummed (mixed-case) ones.      *)
(***************************************************************************)
WalletChecksum ==
  "0x3DdfA8eC3052539b6C9549F12cEA2C295cfF5296"

WalletLower ==
  "0x3ddfa8ec3052539b6c9549f12cea2c295cff5296"

TokenChecksum ==
  "0x514910771AF9Ca656af840dff83E8264EcF986CA"

TokenLower ==
  "0x514910771af9ca656af840dff83e8264ecf986ca"

\* a counterparty (pool / router) address
Pool ==
  "0x7a250d5630b4cf539739df2c5dacb4c659f2488d"

weth_address ==
  "0xC02aaA39b223FE8D0A0e5C4F27eAD9083C756Cc2"

GUSD ==
  "0x056fd409e1d7a124bd7017459dfea2f387b6d5cd"

EURS ==
  "0xdb25f211ab05b1c97d595516f45794528a807ad8"

\* USDC as the ledger reports it and as a checksummed address
UsdcLower ==
  "0xa0b86991c6218b36c1d19d4a2e9eb0ce3606eb48"

UsdcChecksum ==
  "0xA0b86991c6218b36c1d19D4a2e9Eb0cE3606eB48"

\* EURS written with upper-case hex digits
EursUpper ==
  "0xDB25F211AB05B1C97D595516F45794528A807AD8"

\* str.lower() on the address strings of the model
Lower(a) ==
  CASE a = WalletChecksum -> WalletLower
    [] a = TokenChecksum -> TokenLower
    [] a = UsdcChecksum -> UsdcLower
    [] a = EursUpper -> EURS
    [] a = weth_address -> "0xc02aaa39b223fe8d0a0e5c4f27ead9083c756cc2"
    [] OTHER -> a

\* Web3.to_checksum_address on the address strings of the model
to_checksum_address(a) ==
  CASE a = WalletLower -> WalletChecksum
    [] a = TokenLower -> TokenChecksum
    [] OTHER -> a

(***************************************************************************)
(* Tables built by TokenPnLAnalyzer.__init__.                              *)
(***************************************************************************)
InitStablecoins ==
  [a \in {"0xa0b86991c6218b36c1d19d4a2e9eb0ce3606eb48",
          "0xdac17f958d2ee523a2206206994597c13d831ec7",
          "0x6b175474e89094c44da98b954eedeac495271d0f",
          "0x853d955acef822db058eb8505911ed77f175b99e",
          "0x5f98805a4e8be255a32880fdec7f6728c6568ba0",
          "0x2791bca1f2de4661ed88a30c99a7a9449aa84174",
          "0x4fabb145d64652a948d72533023f6e7a623c7c53",
          "0x056fd409e1d7a124bd7017459dfea2f387b6d5cd",
          "0x57ab1ec28d129707052df4df418d58a2d46d5f51",
          "0x0000000000085d4780b73119b644ae5ecd22b376",
          "0x8e870d67f660d95d5be530380d0ec0bd388289e1",
          "0x956f47f50a910163d8bf957cf5846d573e7f87ca",
          "0xdb25f211ab05b1c97d595516f45794528a807ad8",
          "0x89d24a6b4ccb1b6faa2625fe562bdd9a23260359"} |->
     CASE a = "0xa0b86991c6218b36c1d19d4a2e9eb0ce3606eb48" -> [symbol |-> "USDC", decimals |-> 6]
       [] a = "0xdac17f958d2ee523a2206206994597c13d831ec7" -> [symbol |-> "USDT", decimals |-> 6]
       [] a = "0x6b175474e89094c44da98b954eedeac495271d0f" -> [symbol |-> "DAI", decimals |-> 18]
       [] a = "0x853d955acef822db058eb8505911ed77f175b99e" -> [symbol |-> "FRAX", decimals |-> 18]
       [] a = "0x5f98805a4e8be255a32880fdec7f6728c6568ba0" -> [symbol |-> "LUSD", decimals |-> 18]
       [] a = "0x2791bca1f2de4661ed88a30c99a7a9449aa84174" -> [symbol |-> "USDC.e", decimals |-> 6]
       [] a = "0x4fabb145d64652a948d72533023f6e7a623c7c53" -> [symbol |-> "BUSD", decimals |-> 18]
       [] a = "0x056fd409e1d7a124bd7017459dfea2f387b6d5cd" -> [symbol |-> "GUSD", decimals |-> 2]
       [] a = "0x57ab1ec28d129707052df4df418d58a2d46d5f51" -> [symbol |-> "sUSD", decimals |-> 18]
       [] a = "0x0000000000085d4780b73119b644ae5ecd22b376" -> [symbol |-> "TUSD", decimals |-> 18]
       [] a = "0x8e870d67f660d95d5be530380d0ec0bd388289e1" -> [symbol |-> "USDP", decimals |-> 18]
       [] a = "0x956f47f50a910163d8bf957cf5846d573e7f87ca" -> [symbol |-> "FEI", decimals |-> 18]
       [] a = "0xdb25f211ab05b1c97d595516f45794528a807ad8" -> [symbol |-> "EURS", decimals |-> 2]
       [] OTHER -> [symbol |-> "SAI", decimals |-> 18]]

\* keys of self.method_signatures
InitMethodSignatures ==
  {"0x38ed1739", "0x8803dbee", "0x7ff36ab5", "0x4a25d94a", "0x18cbafe5",
   "0xfb3bdb41", "0xc04b8d59", "0xb858183f", "0x414bf389", "0xdb3e2198",
   "0x1f00ca74", "0x791ac947", "0x5c11d795", "0x7c025200", "0xe449022e",
   "0x84bd6d29", "0x415565b0", "0xc7e474c8", "0x90411a32", "0x762e7e6f",
   "0x945bcec9", "0xd9627aa4", "0xb2f1e6db"}

InitBuyMethods ==
  {"0x7ff36ab5", "0xfb3bdb41", "0x5c11d795", "0x414bf389", "0xdb3e2198"}

InitSellMethods ==
  {"0x4a25d94a", "0x18cbafe5", "0x791ac947", "0x414bf389", "0xdb3e2198"}

\* the methods whose call input get_transaction scans for a token path
PathMethods ==
  {"0x38ed1739", "0x8803dbee", "0x18cbafe5", "0x7ff36ab5"}

\* the instance attributes set by __init__
InitSelf ==
  [stablecoins |-> InitStablecoins,
   method_signatures |-> InitMethodSignatures,
   buy_methods |-> InitBuyMethods,
   sell_methods |-> InitSellMethods,
   price_cache |-> << >>]

\* "small default value" of get_transaction
Placeholder ==
  R(1, 10000)

\* default token price of analyze_pnl when no price can be determined
PriceSentinel ==
  R(1, 10000000)

\* default ETH/USD quote
DefaultEthPrice == 2000

(***************************************************************************)
(* State.                                                                  *)
(***************************************************************************)
VARIABLES
  self,        \* the analyzer instance: tables and price cache
  ledger,      \* what the ledger service holds per transaction hash
  feed,        \* the legs get_token_transfers delivers, in delivery order
  env,         \* outcome of the lookups that are not per transaction
  pc,          \* position of analyze_pnl
  run,         \* local variables of the running analyze_pnl call
  queue,       \* hashes of tx_transfers still to be iterated
  result,      \* what analyze_pnl returned / raised
  prev,        \* result of the previous analyze_pnl call over the same data
  resolved,    \* per hash: the record get_transaction returned
  classified,  \* per hash: the results of the classifier calls made so far
  calls,       \* the registry, conversion and quote calls made so far
  web          \* the web process: os.environ and the /analyze requests in flight

vars ==
  <<self, ledger, feed, env, pc, run, queue, result, prev, resolved, classified,
    calls, web>>

\* the web process before any /analyze request has arrived
NoRequests ==
  [environ |-> "", requests |-> <<>>]

\* the hashes on the modelled ledger, in ascending order
HashSeq ==
  SubSeq(<<"T1", "T2", "T3", "T4", "T5">>, 1, MaxTx)

TxHashes ==
  {HashSeq[i] : i \in 1..MaxTx}

\* the transfer feed lists the transactions ascending or descending
DeliveryOrders ==
  {HashSeq, [i \in 1..MaxTx |-> HashSeq[MaxTx + 1 - i]]}

\* Python's None
None ==
  [kind |-> "None"]

\* an exception leaving the called function
Raised ==
  [kind |-> "raise"]

\* the factory's zero address: no WETH pair exists
NoPair ==
  [kind |-> "nopair"]

(***************************************************************************)
(* Asset registry.                                                         *)
(***************************************************************************)
\* variant: the address is looked up as given
is_stablecoin_CaseSensitive(address) ==
  address \in DOMAIN self.stablecoins

is_stablecoin(address) ==
  Lower(address) \in DOMAIN self.stablecoins

get_stablecoin_info(address) ==
  IF is_stablecoin(address) THEN self.stablecoins[Lower(address)] ELSE None

(***************************************************************************)
(* Value resolver: get_transaction.                                        *)
(***************************************************************************)
RECURSIVE Distinct(_)
\* the elements of a sequence, first occurrences only
Distinct(s) ==
  IF s = <<>> THEN <<>>
  ELSE LET r == Distinct(SubSeq(s, 1, Len(s) - 1))
           x == s[Len(s)]
       IN  IF \E i \in 1..Len(r) : r[i] = x THEN r ELSE Append(r, x)

Range(s) ==
  {s[i] : i \in 1..Len(s)}

\* every order in which iterating a Python set of strings can deliver S
SetOrders(S) ==
  {o \in [1..Cardinality(S) -> S] : \A x \in S : \E i \in 1..Cardinality(S) : o[i] = x}

\* tx_type from the method signature (lines 405-424)
MethodType(sig) ==
  IF sig \notin self.method_signatures THEN "unknown"
  ELSE IF sig \in self.buy_methods THEN "buy"
  ELSE IF sig \in self.sell_methods THEN "sell"
  ELSE "swap"

RECURSIVE AppendLogs(_, _)
\* receipt scan: every Transfer log's contract not yet listed is appended
AppendLogs(involved, logs) ==
  IF logs = <<>> THEN involved
  ELSE LET a == Lower(Head(logs))
       IN  AppendLogs(IF a \in Range(involved) THEN involved ELSE Append(involved, a),
                      Tail(logs))

\* sum of the internal transfers whose value is not '0'
InternalSum(itxs) ==
  RSum(SelectSeq(itxs, LAMBDA v : v # Zero))

\* variant: no default when nothing could be determined
ResolveValue_NoDefault(tx_type, total_value, internal_value) ==
  IF tx_type = "sell" /\ RGt(internal_value, Zero) THEN internal_value
  ELSE IF total_value = Zero /\ RGt(internal_value, Zero) THEN internal_value
  ELSE total_value

\* resolution policy for the reported value (lines 518-532)
ResolveValue(tx_type, total_value, internal_value) ==
  LET v1 == IF tx_type = "sell" /\ RGt(internal_value, Zero) THEN internal_value
            ELSE total_value
      v2 == IF v1 = Zero /\ RGt(internal_value, Zero) THEN internal_value ELSE v1
  IN  IF v2 = Zero THEN Placeholder ELSE v2

\* variant: the error handler leaves the value found so far
ResolveOutcome_KeepValue(raised, tx_type, total_value, internal_value) ==
  IF raised THEN (IF total_value = Zero THEN Placeholder ELSE total_value)
  ELSE ResolveValue(tx_type, total_value, internal_value)

\* the value returned (lines 518-537): the resolved value, or the default
\* set by the except branch when a lookup or decoding step raised
ResolveOutcome(raised, tx_type, total_value, internal_value) ==
  IF raised THEN Placeholder ELSE ResolveValue(tx_type, total_value, internal_value)

\* variant: a receipt or internal-transfer answer that is missing is handled
\* like a request that raises
get_transaction_MissingFatal(t, order) ==
  LET txOk == t.txLookup = "ok"
      sigOk == txOk /\ t.input_sig # ""
      total1 == IF txOk THEN t.value ELSE Zero
      type1 == IF sigOk THEN MethodType(t.input_sig) ELSE "unknown"
      inv1 == IF sigOk /\ t.input_sig \in self.method_signatures
                 /\ t.input_sig \in PathMethods
              THEN order ELSE <<>>
      raised1 == t.txLookup = "raise"
      inv2 == IF ~raised1 /\ t.receiptLookup = "ok" THEN AppendLogs(inv1, t.logs)
              ELSE inv1
      raised2 == raised1 \/ t.receiptLookup # "ok"
      internal == IF ~raised2 /\ t.internalLookup = "ok" THEN InternalSum(t.internal)
                  ELSE Zero
      raised3 == raised2 \/ t.internalLookup # "ok"
  IN  [eth_value |-> ResolveOutcome(raised3, type1, total1, internal),
       internal_value |-> internal,
       tx_type |-> type1,
       involved_tokens |-> inv2]

\* get_transaction(tx_hash); t is what the ledger service holds for tx_hash,
\* order is the iteration order list(set(...)) produced for the scanned path
\* addresses of this transaction
get_transaction(t, order) ==
  LET txOk == t.txLookup = "ok"
      sigOk == txOk /\ t.input_sig # ""
      total1 == IF txOk THEN t.value ELSE Zero
      type1 == IF sigOk THEN MethodType(t.input_sig) ELSE "unknown"
      inv1 == IF sigOk /\ t.input_sig \in self.method_signatures
                 /\ t.input_sig \in PathMethods
              THEN order ELSE <<>>
      raised1 == t.txLookup = "raise"
      inv2 == IF ~raised1 /\ t.receiptLookup = "ok" THEN AppendLogs(inv1, t.logs)
              ELSE inv1
      raised2 == raised1 \/ t.receiptLookup = "raise"
      internal == IF ~raised2 /\ t.internalLookup = "ok" THEN InternalSum(t.internal)
                  ELSE Zero
      raised3 == raised2 \/ t.internalLookup = "raise"
  IN  [eth_value |-> ResolveOutcome(raised3, type1, total1, internal),
       internal_value |-> internal,
       tx_type |-> type1,
       involved_tokens |-> inv2]

\* the set whose iteration order get_transaction depends on
PathSet(t) ==
  Range(t.path)

(***************************************************************************)
(* Intent classifier: analyze_transaction_type.                            *)
(***************************************************************************)
\* float(value) / (10 ** decimals)
ScaledAmount(value, decimals) ==
  R(value, Pow10(decimals))

\* get_token_transaction_transfers(tx_hash): [] unless the lookup succeeds
get_token_transaction_transfers(t) ==
  IF t.transfersLookup = "ok" THEN t.transfers ELSE <<>>

\* index of the first stablecoin in a token list, 0 if there is none
FirstStable(tokens) ==
  IF \E i \in 1..Len(tokens) : is_stablecoin(tokens[i])
  THEN CHOOSE i \in 1..Len(tokens) :
         /\ is_stablecoin(tokens[i])
         /\ \A j \in 1..(i - 1) : ~is_stablecoin(tokens[j])
  ELSE 0

RECURSIVE StableFlow(_, _, _)
\* net amount of one stablecoin the wallet received (+) and sent (-)
StableFlow(transfers, stable, wallet) ==
  IF transfers = <<>> THEN Zero
  ELSE LET x == Head(transfers)
           v == ScaledAmount(x.value, get_stablecoin_info(stable).decimals)
           rest == StableFlow(Tail(transfers), stable, wallet)
       IN  IF Lower(x.contractAddress) # stable THEN rest
           ELSE IF Lower(x.to) = wallet THEN RAdd(rest, v)
           ELSE IF Lower(x.from) = wallet THEN RSub(rest, v)
           ELSE rest

\* the legs of the tracked token that touch the wallet (lines 587-593)
OurTokenTransfers(transfers, wallet, token) ==
  SelectSeq(transfers, LAMBDA x :
     /\ Lower(x.contractAddress) = token
     /\ (Lower(x.from) = wallet \/ Lower(x.to) = wallet))

RECURSIVE CountLegs(_, _)
\* incoming / outgoing counts and the summed amount (lines 599-613)
CountLegs(ours, wallet) ==
  IF ours = <<>> THEN [incoming |-> 0, outgoing |-> 0, token_amount |-> Zero]
  ELSE LET x == ours[Len(ours)]
           c == CountLegs(SubSeq(ours, 1, Len(ours) - 1), wallet)
           amount == ScaledAmount(x.value, x.tokenDecimal)
       IN  IF Lower(x.to) = wallet
           THEN [incoming |-> c.incoming + 1, outgoing |-> c.outgoing,
                 token_amount |-> RAdd(c.token_amount, amount)]
           ELSE IF Lower(x.from) = wallet
           THEN [incoming |-> c.incoming, outgoing |-> c.outgoing + 1,
                 token_amount |-> RAdd(c.token_amount, amount)]
           ELSE c

\* variant: the stablecoin flow is consulted before the method signature
DecideType_StableFirst(sig_type, stablecoin_involved, stablecoin_amount, incoming, outgoing) ==
  IF stablecoin_involved /\ RGt(stablecoin_amount, Zero) /\ outgoing > 0 THEN "sell"
  ELSE IF stablecoin_involved /\ RLt(stablecoin_amount, Zero) /\ incoming > 0 THEN "buy"
  ELSE IF sig_type # "unknown" \/ stablecoin_involved THEN sig_type
  ELSE IF incoming > 0 /\ outgoing = 0 THEN "buy"
  ELSE IF outgoing > 0 /\ incoming = 0 THEN "sell"
  ELSE "unknown"

\* the decision chain of lines 615-644
DecideType(sig_type, stablecoin_involved, stablecoin_amount, incoming, outgoing) ==
  IF sig_type # "unknown" THEN sig_type
  ELSE IF stablecoin_involved
  THEN IF RGt(stablecoin_amount, Zero) /\ outgoing > 0 THEN "sell"
       ELSE IF RLt(stablecoin_amount, Zero) /\ incoming > 0 THEN "buy"
       ELSE sig_type
  ELSE IF incoming > 0 /\ outgoing = 0 THEN "buy"
  ELSE IF outgoing > 0 /\ incoming = 0 THEN "sell"
  ELSE "unknown"

analyze_transaction_type(t, wallet_address, token_address, order) ==
  LET token == Lower(token_address)
      wallet == Lower(wallet_address)
      tx_details == get_transaction(t, order)
      transfers == get_token_transaction_transfers(t)
      k == FirstStable(tx_details.involved_tokens)
      stablecoin_involved == k # 0
      stablecoin_amount ==
        IF k = 0 THEN Zero
        ELSE StableFlow(transfers, tx_details.involved_tokens[k], wallet)
      ours == OurTokenTransfers(transfers, wallet, token)
      c == CountLegs(ours, wallet)
  IN  IF ours = <<>> THEN [tx_type |-> "unknown", token_amount |-> Zero]
      ELSE [tx_type |-> DecideType(tx_details.tx_type, stablecoin_involved,
                                   stablecoin_amount, c.incoming, c.outgoing),
            token_amount |-> c.token_amount]

(***************************************************************************)
(* Market data.                                                            *)
(***************************************************************************)
\* get_eth_price(): a quote, None, or Raised when the request fails
get_eth_price(e) ==
  e.eth

\* get_token_price_from_dexscreener(): a price or None (it never raises)
get_token_price_from_dexscreener(e) ==
  e.dex

\* get_token_price(token_address): a price or None (it never raises)
get_token_price(e, token_address) ==
  IF Lower(token_address) = Lower(weth_address) THEN I(1)
  ELSE IF get_token_price_from_dexscreener(e) \notin {None, Zero}
  THEN get_token_price_from_dexscreener(e)
  ELSE IF e.pair \in {Raised, NoPair} THEN None
  ELSE IF get_eth_price(e) = Raised THEN None
  ELSE e.pair

\* variant: the EUR rate is applied the wrong way round
convert_stablecoin_to_eth_RateInverted(e, amount, stablecoin_address) ==
  IF ~is_stablecoin(stablecoin_address) THEN amount
  ELSE IF get_eth_price(e) = Raised THEN Raised
  ELSE LET q == get_eth_price(e)
           eth_price == IF q \in {None, Zero} THEN I(DefaultEthPrice) ELSE q
           rate == IF self.stablecoins[Lower(stablecoin_address)].symbol = "EURS"
                   THEN R(11, 10) ELSE I(1)
       IN  RDiv(RDiv(amount, rate), eth_price)

\* convert_stablecoin_to_eth(amount, stablecoin_address): a value or Raised
convert_stablecoin_to_eth(e, amount, stablecoin_address) ==
  IF ~is_stablecoin(stablecoin_address) THEN amount
  ELSE IF get_eth_price(e) = Raised THEN Raised
  ELSE LET q == get_eth_price(e)
           eth_price == IF q \in {None, Zero} THEN I(DefaultEthPrice) ELSE q
           rate == IF self.stablecoins[Lower(stablecoin_address)].symbol = "EURS"
                   THEN R(11, 10) ELSE I(1)
       IN  RDiv(RMul(amount, rate), eth_price)

(***************************************************************************)
(* Ledger transfer feed.                                                   *)
(***************************************************************************)
\* one leg of the feed: a token transfer with its transaction's fields
FeedLeg(h, t, x) ==
  [hash |-> h, timeStamp |-> t.timeStamp, from |-> x.from, to |-> x.to,
   contractAddress |-> x.contractAddress, value |-> x.value,
   tokenDecimal |-> x.tokenDecimal, gasUsed |-> t.gasUsed, gasPrice |-> t.gasPrice]

RECURSIVE FeedLegs(_, _, _)
\* the legs of transaction h that the feed reports for the tracked token
FeedLegs(h, t, xs) ==
  IF xs = <<>> THEN <<>>
  ELSE IF Lower(Head(xs).contractAddress) = TokenLower
       THEN <<FeedLeg(h, t, Head(xs))>> \o FeedLegs(h, t, Tail(xs))
       ELSE FeedLegs(h, t, Tail(xs))

RECURSIVE FeedOf(_, _)
\* the feed when the service delivers the transactions in the order hs
FeedOf(L, hs) ==
  IF hs = <<>> THEN <<>>
  ELSE FeedLegs(Head(hs), L[Head(hs)], L[Head(hs)].transfers) \o FeedOf(L, Tail(hs))

\* variant: 'No transactions found' is reported as an API error
get_token_transfers_RaiseOnEmpty(e, f) ==
  IF e.feed \in {"error", "none"} THEN [status |-> "raise", legs |-> <<>>]
  ELSE [status |-> "ok", legs |-> f]

\* variant: a failed request is swallowed and reads as an empty result
get_token_transfers_SwallowError(e, f) ==
  IF e.feed \in {"error", "none"} THEN [status |-> "ok", legs |-> <<>>]
  ELSE [status |-> "ok", legs |-> f]

\* get_token_transfers(address, token_address): the legs, or Raised
get_token_transfers(e, f) ==
  IF e.feed = "error" THEN [status |-> "raise", legs |-> <<>>]
  ELSE IF e.feed = "none" THEN [status |-> "ok", legs |-> <<>>]
  ELSE [status |-> "ok", legs |-> f]

(***************************************************************************)
(* Position accountant: analyze_pnl.                                       *)
(***************************************************************************)
RECURSIVE SortByTime(_)
\* sorted(transfers, key=timeStamp): stable, ascending
SortByTime(s) ==
  IF s = <<>> THEN <<>>
  ELSE LET front == SortByTime(SubSeq(s, 1, Len(s) - 1))
           x == s[Len(s)]
           k == Cardinality({i \in 1..Len(front) : front[i].timeStamp <= x.timeStamp})
       IN  SubSeq(front, 1, k) \o <<x>> \o SubSeq(front, k + 1, Len(front))

\* variant: the legs are folded in the order the feed delivered them
SortedTransfers_AsDelivered(transfers) ==
  transfers

\* line 742: transfers = sorted(transfers, key=timeStamp)
SortedTransfers(transfers) ==
  SortByTime(transfers)

\* keys of tx_transfers in insertion order
GroupKeys(transfers) ==
  Distinct([i \in 1..Len(transfers) |-> transfers[i].hash])

\* tx_transfers: the legs grouped by transaction hash
GroupByHash(transfers) ==
  [h \in Range(GroupKeys(transfers)) |->
     SelectSeq(transfers, LAMBDA x : x.hash = h)]

\* variant: every grouped transaction is taken as relevant
IsRelevant_Any(tx_group, wallet_address, token_address) ==
  tx_group # <<>>

\* is_relevant (lines 767-774)
IsRelevant(tx_group, wallet_address, token_address) ==
  \E i \in 1..Len(tx_group) :
     /\ (Lower(tx_group[i].to) = Lower(wallet_address)
         \/ Lower(tx_group[i].from) = Lower(wallet_address))
     /\ Lower(tx_group[i].contractAddress) = Lower(token_address)

RECURSIVE GroupAmount(_, _, _, _)
\* token_amount_in (side = "to") / token_amount_out (side = "from")
GroupAmount(tx_group, side, wallet_address, token_address) ==
  IF tx_group = <<>> THEN Zero
  ELSE LET x == Head(tx_group)
           rest == GroupAmount(Tail(tx_group), side, wallet_address, token_address)
       IN  IF Lower(x[side]) = Lower(wallet_address)
              /\ Lower(x.contractAddress) = Lower(token_address)
           THEN RAdd(ScaledAmount(x.value, x.tokenDecimal), rest)
           ELSE rest

RECURSIVE StableOneWay(_, _, _, _)
\* stablecoin amount the wallet sent (side = "from") or received (side = "to")
StableOneWay(transfers, stable, side, wallet_address) ==
  IF transfers = <<>> THEN Zero
  ELSE LET x == Head(transfers)
           rest == StableOneWay(Tail(transfers), stable, side, wallet_address)
       IN  IF Lower(x.contractAddress) = Lower(stable)
              /\ Lower(x[side]) = Lower(wallet_address)
           THEN RAdd(ScaledAmount(x.value, get_stablecoin_info(stable).decimals), rest)
           ELSE rest

\* the value added to total_in_eth / total_out_eth (lines 837-867, 885-915):
\* a value, or Raised when the conversion raises
FoldValue(e, t, eth_value, amount, side, has_stablecoin, stablecoin_address, wallet_address, current_price_eth) ==
  IF eth_value # Zero THEN eth_value
  ELSE IF has_stablecoin
  THEN LET stablecoin_amount ==
             StableOneWay(get_token_transaction_transfers(t), stablecoin_address, side,
                          wallet_address)
       IN  IF RGt(stablecoin_amount, Zero)
           THEN convert_stablecoin_to_eth(e, stablecoin_amount, stablecoin_address)
           ELSE RMul(amount, current_price_eth)
  ELSE RMul(amount, current_price_eth)

\* variant: the gas of every leg of the group is added
GasCost_PerLeg(tx_group) ==
  RSum([i \in 1..Len(tx_group) |-> RMul(I(tx_group[i].gasUsed), tx_group[i].gasPrice)])

\* gas_cost (lines 791-794): gasUsed * gasPrice of the group's first leg
GasCost(tx_group) ==
  RMul(I(tx_group[1].gasUsed), tx_group[1].gasPrice)

\* variant: only buys and sells are listed in the report
AppendEntry_OnlyTrades(r, tx_data, h) ==
  IF tx_data.type \in {"buy", "sell"}
  THEN [r EXCEPT !.transactions = Append(@, tx_data), !.processed_txs = @ \cup {h}]
  ELSE [r EXCEPT !.processed_txs = @ \cup {h}]

\* lines 920-924: the entry is listed and the hash marked as processed
AppendEntry(r, tx_data, h) ==
  [r EXCEPT !.transactions = Append(@, tx_data), !.processed_txs = @ \cup {h}]

\* the local variables of analyze_pnl before the call has set any of them
NoRun ==
  [wallet_address |-> "", token_address |-> "",
   buy_count |-> 0, sell_count |-> 0,
   total_tokens_bought |-> Zero, total_tokens_sold |-> Zero,
   total_in_eth |-> Zero, total_out_eth |-> Zero, total_gas_eth |-> Zero,
   current_balance |-> Zero, current_price_eth |-> Zero, eth_price_usd |-> Zero,
   tx_transfers |-> << >>, processed_txs |-> {}, transactions |-> <<>>]

\* one iteration of the loop over tx_transfers.items() (lines 760-929):
\* the local variables after the iteration for hash h
FoldTx(r, e, t, h, order) ==
  LET tx_group == r.tx_transfers[h]
      timestamp == tx_group[1].timeStamp
      cls == analyze_transaction_type(t, r.wallet_address, r.token_address, order)
      tx_value == get_transaction(t, order)
      gas_cost == GasCost(tx_group)
      eth_value == tx_value.eth_value
      k == FirstStable(tx_value.involved_tokens)
      has_stablecoin == k # 0
      stablecoin_address == IF k = 0 THEN "None" ELSE tx_value.involved_tokens[k]
      tx_data == [hash |-> h, timestamp |-> timestamp, type |-> cls.tx_type,
                  eth_value |-> eth_value, gas_cost |-> gas_cost,
                  token_amount |-> Zero, has_stablecoin |-> has_stablecoin,
                  stablecoin_address |-> stablecoin_address]
      r1 == [r EXCEPT !.total_gas_eth = RAdd(@, gas_cost)]
      token_amount_in == GroupAmount(tx_group, "to", r.wallet_address, r.token_address)
      token_amount_out == GroupAmount(tx_group, "from", r.wallet_address, r.token_address)
      value_in == FoldValue(e, t, eth_value, token_amount_in, "from", has_stablecoin,
                            stablecoin_address, r.wallet_address, r.current_price_eth)
      value_out == FoldValue(e, t, eth_value, token_amount_out, "to", has_stablecoin,
                             stablecoin_address, r.wallet_address, r.current_price_eth)
      rb == [r1 EXCEPT !.buy_count = @ + 1,
                       !.total_tokens_bought = RAdd(@, token_amount_in)]
      rs == [r1 EXCEPT !.sell_count = @ + 1,
                       !.total_tokens_sold = RAdd(@, token_amount_out)]
      Done(rr, d) == AppendEntry(rr, d, h)
  IN  IF h \in r.processed_txs THEN r
      ELSE IF ~IsRelevant(tx_group, r.wallet_address, r.token_address)
      THEN [r EXCEPT !.processed_txs = @ \cup {h}]
      ELSE IF cls.tx_type = "buy"
      THEN IF value_in = Raised THEN rb
           ELSE Done([rb EXCEPT !.total_in_eth = RAdd(@, value_in)],
                     [tx_data EXCEPT !.token_amount = token_amount_in,
                                     !.eth_value = value_in])
      ELSE IF cls.tx_type = "sell"
      THEN IF value_out = Raised THEN rs
           ELSE Done([rs EXCEPT !.total_out_eth = RAdd(@, value_out)],
                     [tx_data EXCEPT !.token_amount = token_amount_out,
                                     !.eth_value = value_out])
      ELSE Done(r1, tx_data)

\* variant: the cost is spread over the tokens sold
CostBasis_PerSold(r) ==
  IF RGt(r.total_tokens_sold, Zero)
  THEN RDiv(r.total_in_eth, r.total_tokens_sold) ELSE Zero

\* cost_basis_per_token (lines 945-951)
CostBasis(r) ==
  IF RGt(r.total_tokens_bought, Zero)
  THEN RDiv(r.total_in_eth, r.total_tokens_bought) ELSE Zero

RECURSIVE ChronoWalk(_, _, _, _)
\* realized PnL when each sell is costed at the average cost of the buys
\* folded before it
ChronoWalk(txs, value_in, bought, realized) ==
  IF txs = <<>> THEN realized
  ELSE LET x == Head(txs)
           cb == IF RGt(bought, Zero) THEN RDiv(value_in, bought) ELSE Zero
       IN  IF x.type = "buy"
           THEN ChronoWalk(Tail(txs), RAdd(value_in, x.eth_value),
                           RAdd(bought, x.token_amount), realized)
           ELSE IF x.type = "sell"
           THEN ChronoWalk(Tail(txs), value_in, bought,
                           RAdd(realized, RSub(x.eth_value, RMul(x.token_amount, cb))))
           ELSE ChronoWalk(Tail(txs), value_in, bought, realized)

\* variant: the cost basis of a sell reflects only the buys before it
RealizedPnl_Chrono(r) ==
  ChronoWalk(r.transactions, Zero, Zero, Zero)

\* realized_pnl_eth (lines 944-951)
RealizedPnl(r) ==
  IF RGt(r.total_tokens_bought, Zero)
  THEN RSub(r.total_out_eth, RMul(r.total_tokens_sold, CostBasis(r)))
  ELSE Zero

\* unrealized_pnl_eth (lines 955-960)
UnrealizedPnl(r) ==
  IF RGt(r.total_tokens_bought, Zero)
  THEN RSub(RMul(r.current_balance, r.current_price_eth),
            RMul(r.current_balance, CostBasis(r)))
  ELSE Zero

\* the dictionary analyze_pnl returns (lines 940-999)
Report(r) ==
  [kind |-> "report",
   buy_count |-> r.buy_count, sell_count |-> r.sell_count,
   total_tokens_bought |-> r.total_tokens_bought,
   total_tokens_sold |-> r.total_tokens_sold,
   current_balance |-> r.current_balance,
   total_in_eth |-> r.total_in_eth, total_out_eth |-> r.total_out_eth,
   total_gas_eth |-> r.total_gas_eth,
   current_price_eth |-> r.current_price_eth,
   current_holdings_eth |-> RMul(r.current_balance, r.current_price_eth),
   current_holdings_usd |->
     RMul(RMul(r.current_balance, r.current_price_eth), r.eth_price_usd),
   realized_pnl_eth |-> RealizedPnl(r),
   realized_pnl_usd |-> RMul(RealizedPnl(r), r.eth_price_usd),
   unrealized_pnl_eth |-> UnrealizedPnl(r),
   unrealized_pnl_usd |-> RMul(UnrealizedPnl(r), r.eth_price_usd),
   total_pnl_eth |-> RAdd(RealizedPnl(r), UnrealizedPnl(r)),
   total_pnl_usd |-> RAdd(RMul(RealizedPnl(r), r.eth_price_usd),
                          RMul(UnrealizedPnl(r), r.eth_price_usd)),
   eth_price_usd |-> r.eth_price_usd,
   transactions |-> r.transactions]

(***************************************************************************)
(* The ledger and market data the model is run over.                       *)
(***************************************************************************)
\* token legs as the ledger service reports them (raw value, decimals)
In100 ==
  [contractAddress |-> TokenLower, from |-> Pool, to |-> WalletLower,
   value |-> 10000, tokenDecimal |-> 2]

Out40 ==
  [contractAddress |-> TokenLower, from |-> WalletLower, to |-> Pool,
   value |-> 4000, tokenDecimal |-> 2]

Hop40 ==
  [contractAddress |-> TokenLower, from |-> Pool, to |-> Pool,
   value |-> 4000, tokenDecimal |-> 2]

GusdPaid ==
  [contractAddress |-> GUSD, from |-> WalletLower, to |-> Pool,
   value |-> 5000, tokenDecimal |-> 2]

GusdReceived ==
  [contractAddress |-> GUSD, from |-> Pool, to |-> WalletLower,
   value |-> 5000, tokenDecimal |-> 2]

EursReceived ==
  [contractAddress |-> EURS, from |-> Pool, to |-> WalletLower,
   value |-> 3000, tokenDecimal |-> 2]

\* what the ledger service holds for one transaction hash
TxRecords(stamps, lookups, values, sigs, paths, logss, internals, xferLookups, xfers) ==
  [timeStamp : stamps, gasUsed : {21000}, gasPrice : {R(1, 50000000)},
   txLookup : lookups, value : values, input_sig : sigs, path : paths,
   receiptLookup : lookups, logs : logss,
   internalLookup : lookups, internal : internals,
   transfersLookup : xferLookups, transfers : xfers]

\* a transaction all of whose lookups succeed
Tx(ts, value, sig, path, logs, internal, transfers) ==
  [timeStamp |-> ts, gasUsed |-> 210 * ts, gasPrice |-> R(1, 50000000),
   txLookup |-> "ok", value |-> value, input_sig |-> sig, path |-> path,
   receiptLookup |-> "ok", logs |-> logs,
   internalLookup |-> "ok", internal |-> internal,
   transfersLookup |-> "ok", transfers |-> transfers]

\* a plain purchase of 100 units for 1 ETH at time ts
ScenarioBuyAt(ts) ==
  Tx(ts, I(1), "", <<>>, <<TokenLower>>, <<>>, <<In100>>)

\* the block times of the modelled transactions
Stamps ==
  {100 * i : i \in 1..MaxTx}

\* the transactions of the accounting runs
MainTx ==
  UNION {{ Tx(ts, I(1), "", <<>>, <<TokenLower>>, <<>>, <<In100>>),
           Tx(ts, Zero, "", <<>>, <<TokenLower>>, <<R(6, 10)>>, <<Out40>>),
           Tx(ts, Zero, "", <<>>, <<TokenLower>>, <<>>, <<In100, Out40>>),
           Tx(ts, Zero, "0x38ed1739", <<GUSD, EURS, TokenLower>>,
              <<GUSD, EURS, TokenLower>>, <<>>, <<GusdPaid, In100>>),
           Tx(ts, Zero, "", <<>>, <<GUSD, TokenLower>>, <<>>, <<GusdPaid, In100>>),
           Tx(ts, Zero, "", <<>>, <<TokenLower>>, <<>>, <<Hop40>>) }
         : ts \in Stamps}

\* the transactions the value resolver is checked over
ResolveTx ==
  TxRecords({100}, {"ok", "missing", "raise"}, {Zero, I(1)},
            {"", "0xa9059cbb", "0x7ff36ab5", "0x18cbafe5", "0x38ed1739", "0x414bf389"},
            {<<>>, <<GUSD, TokenLower, GUSD>>, <<EURS, GUSD>>},
            {<<>>, <<TokenLower, GUSD>>},
            {<<>>, <<Zero>>, <<R(6, 10), Zero, R(1, 10)>>},
            {"ok"}, {<<In100>>})

\* the transactions the classifier is checked over
ClassifyTx ==
  TxRecords({100}, {"ok", "raise"}, {Zero, I(1)},
            {"", "0x7ff36ab5", "0x18cbafe5", "0x38ed1739"},
            {<<>>, <<EURS, GUSD>>},
            {<<>>, <<TokenLower, GUSD>>, <<EURS, TokenLower, GUSD>>},
            {<<>>, <<R(6, 10)>>},
            {"ok", "fail"},
            {<<>>, <<In100>>, <<Out40>>, <<In100, Out40>>, <<Hop40>>,
             <<GusdPaid, In100>>, <<GusdReceived, Out40>>, <<GusdReceived, In100>>,
             <<EursReceived, GusdPaid, Out40>>})

\* outcomes of the lookups that are not per transaction; a failing balance
\* read is combined with a DexScreener price only, and a failing pair read
\* with a working quote only
EnvSet ==
  {[feed |-> f, balance |-> "ok", dex |-> None, pair |-> NoPair, eth |-> None]
     : f \in {"error", "none"}}
  \cup
  {x \in [feed : {"ok"}, balance : {"ok", "fail"}, dex : {None, R(1, 100)},
          pair : {Raised, NoPair, R(2, 100)}, eth : {Raised, None, I(2500)}]
     : /\ x.dex # None => x.pair = NoPair
       /\ x.balance = "fail" => x.dex # None
       /\ x.pair = Raised => x.eth = I(2500)}

RECURSIVE NetLegs(_)
\* tracked-token amount the wallet gained in a list of legs
NetLegs(xs) ==
  IF xs = <<>> THEN Zero
  ELSE LET x == Head(xs)
           v == ScaledAmount(x.value, x.tokenDecimal)
       IN  IF x.contractAddress # TokenLower THEN NetLegs(Tail(xs))
           ELSE IF x.to = WalletLower /\ x.from # WalletLower THEN RAdd(NetLegs(Tail(xs)), v)
           ELSE IF x.from = WalletLower /\ x.to # WalletLower THEN RSub(NetLegs(Tail(xs)), v)
           ELSE NetLegs(Tail(xs))

RECURSIVE ChainSum(_, _)
ChainSum(L, hs) ==
  IF hs = {} THEN Zero
  ELSE LET h == CHOOSE x \in hs : TRUE
       IN  RAdd(NetLegs(L[h].transfers), ChainSum(L, hs \ {h}))

\* balanceOf(wallet) on chain, in token units: what the transfers add up to
ChainBalance(L) ==
  ChainSum(L, DOMAIN L)

Unset ==
  [kind |-> "unset"]

\* the hashes of ledger L are mined in ascending order, in descending order,
\* or all in one block
StampPattern(L) ==
  \/ \A i \in 1..MaxTx : L[HashSeq[i]].timeStamp = 100 * i
  \/ \A i \in 1..MaxTx : L[HashSeq[i]].timeStamp = 100 * (MaxTx + 1 - i)
  \/ \A i \in 1..MaxTx : L[HashSeq[i]].timeStamp = 100

\* the ledgers of the accounting runs: the wallet never holds a negative
\* balance
MainLedgers ==
  {L \in [TxHashes -> MainTx] : StampPattern(L) /\ ~RLt(ChainBalance(L), Zero)}

(***************************************************************************)
(* analyze_pnl as a state machine.                                         *)
(***************************************************************************)
\* variant: a failed balanceOf call is not replaced by 0
CurrentBalance_NoFallback(e, L) ==
  ChainBalance(L)

\* current_balance (lines 713-719): the on-chain balance, 0 if the call fails
CurrentBalance(e, L) ==
  IF e.balance = "ok" THEN ChainBalance(L) ELSE Zero

\* variant: an undetermined price is taken as 0
CurrentPrice_NoSentinel(e, token_address) ==
  IF get_token_price(e, token_address) = None THEN Zero
  ELSE get_token_price(e, token_address)

\* current_price_eth (lines 721-730)
CurrentPrice(e, token_address) ==
  IF get_token_price(e, token_address) = None THEN PriceSentinel
  ELSE get_token_price(e, token_address)

\* eth_price_usd (lines 732-738)
EthPriceUsd(e) ==
  IF get_eth_price(e) \in {Raised, None, Zero} THEN I(DefaultEthPrice)
  ELSE get_eth_price(e)

\* what the call does when the feed delivered no transfer (lines 683-685)
NoTransfers(legs) ==
  legs = <<>>

\* the local variables when the loop over the transactions begins
StartRun(e, L, wallet_address, token_address, transfers) ==
  [NoRun EXCEPT !.wallet_address = wallet_address,
                !.token_address = token_address,
                !.current_balance = CurrentBalance(e, L),
                !.current_price_eth = CurrentPrice(e, token_address),
                !.eth_price_usd = EthPriceUsd(e),
                !.tx_transfers = GroupByHash(transfers)]

RECURSIVE FoldAll(_, _, _, _)
\* the loop run to its end over the hashes hs, in that order
FoldAll(r, e, L, hs) ==
  IF hs = <<>> THEN r
  ELSE FoldAll(FoldTx(r, e, L[Head(hs)], Head(hs),
                      CHOOSE o \in SetOrders(PathSet(L[Head(hs)])) : TRUE),
               e, L, Tail(hs))

\* lines 672-756: fetch the transfers, look up balance and prices, sort, group
AnalyzeStart ==
  /\ pc = "idle"
  /\ LET wallet_address == to_checksum_address(WalletLower)
         token_address == to_checksum_address(TokenLower)
         fetched == get_token_transfers(env, feed)
         transfers == SortedTransfers(fetched.legs)
     IN  IF fetched.status = "raise"
         THEN /\ pc' = "done"
              /\ result' = Raised
              /\ UNCHANGED <<run, queue>>
         ELSE IF NoTransfers(fetched.legs)
         THEN /\ pc' = "done"
              /\ result' = None
              /\ UNCHANGED <<run, queue>>
         ELSE /\ pc' = "fold"
              /\ run' = StartRun(env, ledger, wallet_address, token_address, transfers)
              /\ queue' = GroupKeys(transfers)
              /\ UNCHANGED result
  /\ UNCHANGED <<self, ledger, feed, env, prev, resolved, classified, calls, web>>

\* lines 760-929: one iteration of the loop over the grouped transactions
ProcessTx ==
  /\ pc = "fold"
  /\ queue # <<>>
  /\ \E order \in SetOrders(PathSet(ledger[Head(queue)])) :
        run' = FoldTx(run, env, ledger[Head(queue)], Head(queue), order)
  /\ queue' = Tail(queue)
  /\ UNCHANGED <<self, ledger, feed, env, pc, result, prev, resolved, classified, calls, web>>

\* lines 931-999: compute the PnL figures and return the report
Finalize ==
  /\ pc = "fold"
  /\ queue = <<>>
  /\ result' = Report(run)
  /\ pc' = "done"
  /\ UNCHANGED <<self, ledger, feed, env, run, queue, prev, resolved, classified, calls, web>>

\* a second analysis of the same wallet and token over the same data
Rerun ==
  /\ pc = "done"
  /\ prev = Unset
  /\ prev' = result
  /\ result' = Unset
  /\ run' = NoRun
  /\ pc' = "idle"
  /\ UNCHANGED <<self, ledger, feed, env, queue, resolved, classified, calls, web>>

\* a caller invokes get_transaction(h)
Resolve ==
  \E h \in DOMAIN ledger :
    /\ resolved[h] = Unset
    /\ \E order \in SetOrders(PathSet(ledger[h])) :
          resolved' = [resolved EXCEPT ![h] = get_transaction(ledger[h], order)]
    /\ UNCHANGED <<self, ledger, feed, env, pc, run, queue, result, prev, classified, calls, web>>

\* variant: the classifier memoizes its verdict in the instance's price cache
Classify_Caching ==
  \E h \in DOMAIN ledger :
    /\ Len(classified[h]) < MaxClassify
    /\ \E order \in SetOrders(PathSet(ledger[h])) :
          LET c == analyze_transaction_type(ledger[h], WalletChecksum, TokenChecksum, order)
          IN  /\ classified' = [classified EXCEPT ![h] = Append(@, c)]
              /\ self' = [self EXCEPT !.price_cache = <<c.tx_type>>]
    /\ UNCHANGED <<ledger, feed, env, pc, run, queue, result, prev, resolved, calls, web>>

\* a caller invokes analyze_transaction_type(h, wallet, token)
Classify ==
  \E h \in DOMAIN ledger :
    /\ Len(classified[h]) < MaxClassify
    /\ \E order \in SetOrders(PathSet(ledger[h])) :
          classified' = [classified EXCEPT ![h] =
             Append(@, analyze_transaction_type(ledger[h], WalletChecksum,
                                                TokenChecksum, order))]
    /\ UNCHANGED <<self, ledger, feed, env, pc, run, queue, result, prev, resolved, calls, web>>

InitRest ==
  /\ self = InitSelf
  /\ pc = "idle"
  /\ run = NoRun
  /\ queue = <<>>
  /\ result = Unset
  /\ prev = Unset
  /\ resolved = [h \in DOMAIN ledger |-> Unset]
  /\ classified = [h \in DOMAIN ledger |-> <<>>]
  /\ calls = <<>>
  /\ web = NoRequests

\* the accounting runs: MaxTx transactions, delivered in any order
Init ==
  /\ ledger \in MainLedgers
  /\ \E hs \in DeliveryOrders : feed = FeedOf(ledger, hs)
  /\ env \in EnvSet
  /\ InitRest

Next ==
  \/ AnalyzeStart
  \/ ProcessTx
  \/ Finalize

Spec ==
  Init /\ [][Next]_vars

\* two analyses, one after the other, over the same ledger and quotes
InitRerun ==
  /\ ledger \in MainLedgers
  /\ feed = FeedOf(ledger, HashSeq)
  /\ env \in {x \in EnvSet : x.feed = "ok" /\ x.balance = "ok" /\ x.dex # None
                              /\ x.eth \notin {None, Raised}}
  /\ InitRest

NextRerun ==
  \/ AnalyzeStart
  \/ ProcessTx
  \/ Finalize
  \/ Rerun

SpecRerun ==
  InitRerun /\ [][NextRerun]_vars

\* the value resolver alone, over one transaction
InitResolve ==
  /\ ledger \in [{"T1"} -> ResolveTx]
  /\ feed = <<>>
  /\ env \in {x \in EnvSet : x.feed = "none"}
  /\ InitRest

NextResolve ==
  Resolve

SpecResolve ==
  InitResolve /\ [][NextResolve]_vars

\* the classifier, invoked at any time around an analysis of one transaction
InitClassify ==
  /\ ledger \in [{"T1"} -> ClassifyTx]
  /\ feed = FeedOf(ledger, <<"T1">>)
  /\ env \in {x \in EnvSet : x.feed = "ok" /\ x.balance = "fail" /\ x.dex # None /\ x.eth = None}
  /\ InitRest

NextClassify ==
  \/ AnalyzeStart
  \/ ProcessTx
  \/ Finalize
  \/ Classify

SpecClassify ==
  InitClassify /\ [][NextClassify]_vars

\* the answers the ETH/USD quote service can give
QuoteSet ==
  {Raised, None, I(2500), I(3000)}

\* get_token_price reaches its own get_eth_price() call (line 1100) when
\* DexScreener gave no price and the pair's reserves were read
PairRoute(e) ==
  /\ get_token_price_from_dexscreener(e) \in {None, Zero}
  /\ e.pair \notin {Raised, NoPair}

\* lines 721-730 on their own: the token price lookup of an analysis
PriceToken ==
  /\ pc = "idle"
  /\ pc' = "priced"
  /\ run' = [run EXCEPT !.current_price_eth = CurrentPrice(env, TokenChecksum)]
  /\ calls' = IF PairRoute(env)
              THEN Append(calls, [fn |-> "get_eth_price", ret |-> get_eth_price(env)])
              ELSE calls
  /\ UNCHANGED <<self, ledger, feed, env, queue, result, prev, resolved, classified, web>>

\* the quote service answers differently from now on
QuoteMoves ==
  /\ pc \in {"idle", "priced"}
  /\ \E q \in QuoteSet \ {env.eth} : env' = [env EXCEPT !.eth = q]
  /\ UNCHANGED <<self, ledger, feed, pc, run, queue, result, prev, resolved, classified,
                 calls, web>>

\* lines 732-738 on their own: the ETH/USD lookup of the same analysis
QuoteEth ==
  /\ pc = "priced"
  /\ pc' = "quoted"
  /\ run' = [run EXCEPT !.eth_price_usd = EthPriceUsd(env)]
  /\ calls' = Append(calls, [fn |-> "get_eth_price", ret |-> get_eth_price(env)])
  /\ UNCHANGED <<self, ledger, feed, env, queue, result, prev, resolved, classified, web>>

\* the price lookups of one analysis, the quote service moving meanwhile
InitPrice ==
  /\ ledger \in [{"T1"} -> {ScenarioBuyAt(ts) : ts \in {100, 200}}]
  /\ feed = FeedOf(ledger, <<"T1">>)
  /\ env \in {x \in EnvSet : x.feed = "ok"}
  /\ InitRest

NextPrice ==
  \/ PriceToken
  \/ QuoteMoves
  \/ QuoteEth

SpecPrice ==
  InitPrice /\ [][NextPrice]_vars

\* the addresses a caller passes to the registry and to the conversion
ProbeAddresses ==
  {UsdcChecksum, UsdcLower, EursUpper, EURS, GUSD, weth_address, TokenLower, ""}

\* the stablecoin amounts a caller converts
ConvertAmounts ==
  {Zero, I(100), R(7, 2)}

\* a caller invokes is_stablecoin(a) and get_stablecoin_info(a)
RegistryLookup ==
  /\ Len(calls) < MaxCalls
  /\ \E a \in ProbeAddresses :
        calls' = Append(calls, [fn |-> "is_stablecoin", address |-> a,
                                ret |-> is_stablecoin(a),
                                info |-> get_stablecoin_info(a)])
  /\ UNCHANGED <<self, ledger, feed, env, pc, run, queue, result, prev, resolved,
                 classified, web>>

\* a caller invokes convert_stablecoin_to_eth(amount, a)
Convert ==
  /\ Len(calls) < MaxCalls
  /\ \E a \in ProbeAddresses : \E amount \in ConvertAmounts :
        calls' = Append(calls, [fn |-> "convert_stablecoin_to_eth", address |-> a,
                                amount |-> amount, eth_price |-> get_eth_price(env),
                                ret |-> convert_stablecoin_to_eth(env, amount, a)])
  /\ UNCHANGED <<self, ledger, feed, env, pc, run, queue, result, prev, resolved,
                 classified, web>>

\* the registry and the conversion called on their own, under any quote
InitRegistry ==
  /\ ledger \in [{"T1"} -> {ScenarioBuyAt(100)}]
  /\ feed = <<>>
  /\ env \in {[feed |-> "none", balance |-> "ok", dex |-> None, pair |-> NoPair, eth |-> q]
               : q \in QuoteSet \cup {Zero}}
  /\ InitRest

NextRegistry ==
  \/ RegistryLookup
  \/ Convert

SpecRegistry ==
  InitRegistry /\ [][NextRegistry]_vars

(***************************************************************************)
(* Properties.                                                             *)
(***************************************************************************)
\* the buy of 100 units for 1.0 ETH at time 100
ScenarioBuy ==
  Tx(100, I(1), "", <<>>, <<TokenLower>>, <<>>, <<In100>>)

\* the sell of 40 units for 0.6 ETH at time 200
ScenarioSell ==
  Tx(200, Zero, "", <<>>, <<TokenLower>>, <<R(6, 10)>>, <<Out40>>)

\* the wallet's only activity is ScenarioBuy followed by ScenarioSell, and
\* the balance lookup answers
Scenario ==
  /\ ledger["T1"] = ScenarioBuy
  /\ ledger["T2"] = ScenarioSell
  /\ \A h \in DOMAIN ledger \ {"T1", "T2"} : ledger[h].transfers = <<Hop40>>
  /\ env.feed = "ok"
  /\ env.balance = "ok"

\* C1 as stated: in every report, current_balance equals
\* total_tokens_bought - total_tokens_sold.
C1_BalanceIdentity ==
  result.kind = "report" =>
    result.current_balance = RSub(result.total_tokens_bought, result.total_tokens_sold)

\* C1 amended: in every report, current_balance is the wallet's on-chain
\* balance in token units, or 0 when the balance lookup failed; it is not
\* derived from the bought and sold totals.
C1_BalanceFromChain ==
  result.kind = "report" =>
    result.current_balance = IF env.balance = "ok" THEN ChainBalance(ledger) ELSE Zero

\* a report whose on-chain balance was read and differs from bought - sold
C1_Witness ==
  /\ result.kind = "report"
  /\ env.balance = "ok"
  /\ result.buy_count > 0
  /\ result.current_balance # RSub(result.total_tokens_bought, result.total_tokens_sold)

\* C2: buy of 100 units for 1.0 ETH (time 100) then sell of 40 units for
\* 0.6 ETH (time 200): the report has tokensBought = 100, tokensSold = 40,
\* currentBalance = 60, costBasisPerToken = 0.01 and realizedPnL = 0.2.
C2_ConcreteScenario ==
  (Scenario /\ pc = "done") =>
    /\ result.kind = "report"
    /\ result.total_tokens_bought = I(100)
    /\ result.total_tokens_sold = I(40)
    /\ result.current_balance = I(60)
    /\ CostBasis(run) = R(1, 100)
    /\ result.realized_pnl_eth = R(2, 10)

\* the scenario has been analyzed to its end
C2_Witness ==
  /\ Scenario
  /\ pc = "done"
  /\ result.kind = "report"
  /\ result.buy_count = 1
  /\ result.sell_count = 1

\* C3: get_transaction never returns eth_value 0; with zero direct value and
\* zero internal value it returns exactly the placeholder 0.0001, and in
\* every other outcome, errors included, a strictly positive value.
C3_ValueNeverZero ==
  \A h \in DOMAIN ledger :
    resolved[h] # Unset =>
      /\ RGt(resolved[h].eth_value, Zero)
      /\ (ledger[h].value = Zero /\ InternalSum(ledger[h].internal) = Zero)
            => resolved[h].eth_value = Placeholder

\* a transaction with no direct and no internal value was resolved, every
\* lookup having succeeded
C3_Witness ==
  \E h \in DOMAIN ledger :
    /\ resolved[h] # Unset
    /\ ledger[h].txLookup = "ok"
    /\ ledger[h].receiptLookup = "ok"
    /\ ledger[h].internalLookup = "ok"
    /\ ledger[h].value = Zero
    /\ InternalSum(ledger[h].internal) = Zero
    /\ resolved[h].eth_value = Placeholder

\* the tracked-token legs touching the wallet that the classifier is given
ClassifierLegs(t) ==
  OurTokenTransfers(get_token_transaction_transfers(t), WalletLower, TokenLower)

\* C4 as stated: a transaction whose method signature (as read by
\* get_transaction) is in the buy set is classified buy, whatever the
\* wallet's stable-asset legs are.
C4_BuyMethodWins ==
  \A h \in DOMAIN ledger : \A i \in 1..Len(classified[h]) :
    (ledger[h].txLookup = "ok" /\ ledger[h].input_sig \in InitBuyMethods)
       => classified[h][i].tx_type = "buy"

\* C4 amended: when get_transaction read a signature of the buy set and the
\* transaction's transfer list holds a tracked-asset leg touching the wallet,
\* the intent is buy whatever the stable-asset legs are; when the list holds
\* no such leg the result is (unknown, 0).
C4_BuyMethodWinsGivenLegs ==
  \A h \in DOMAIN ledger : \A i \in 1..Len(classified[h]) :
    /\ (ledger[h].txLookup = "ok" /\ ledger[h].input_sig \in InitBuyMethods
          /\ ClassifierLegs(ledger[h]) # <<>>)
         => classified[h][i].tx_type = "buy"
    /\ ClassifierLegs(ledger[h]) = <<>>
         => classified[h][i] = [tx_type |-> "unknown", token_amount |-> Zero]

\* a buy-method transaction in which the wallet sends the tracked asset and
\* receives a stablecoin listed in involved_tokens was classified buy
C4_Witness ==
  \E h \in DOMAIN ledger :
    /\ Len(classified[h]) > 0
    /\ classified[h][1].tx_type = "buy"
    /\ ledger[h].txLookup = "ok"
    /\ ledger[h].input_sig = "0x7ff36ab5"
    /\ ledger[h].receiptLookup = "ok"
    /\ ledger[h].logs = <<TokenLower, GUSD>>
    /\ ledger[h].path = <<>>
    /\ get_token_transaction_transfers(ledger[h]) = <<GusdReceived, Out40>>

\* C5: classifying the same transaction again over the same ledger records
\* returns the same (intent, tokenAmount), and no classifier call changes
\* the analyzer's tables, its price cache or the position accumulators.
C5_ClassifyIdempotent ==
  [][classified' # classified =>
       /\ self' = self
       /\ run' = run
       /\ result' = result
       /\ \A h \in DOMAIN ledger : \A i, j \in 1..Len(classified'[h]) :
            classified'[h][i] = classified'[h][j]]_vars

\* a transaction was classified twice, once before and once after it was
\* folded into the accumulators
C5_Witness ==
  /\ Len(classified["T1"]) = 2
  /\ classified["T1"][1].tx_type = "buy"
  /\ run.buy_count = 1
  /\ ledger["T1"].path = <<EURS, GUSD>>
  /\ ledger["T1"].input_sig = "0x7ff36ab5"

\* the realized PnL analyze_pnl would report had it iterated the grouped
\* transactions of ledger L in the order hs
RealizedInOrder(e, L, hs) ==
  RealizedPnl(FoldAll(StartRun(e, L, WalletChecksum, TokenChecksum,
                               SortByTime(FeedOf(L, HashSeq))),
                      e, L, hs))

\* C6 as stated: there are a set of classified transactions and two fold
\* orders of it for which the resulting realizedPnL differs.
C6_OrderDependent ==
  \E L \in [TxHashes -> MainTx] : \E hs1, hs2 \in SetOrders(TxHashes) :
    RealizedInOrder(env, L, hs1) # RealizedInOrder(env, L, hs2)

\* C6 amended: realizedPnL is computed once, at finalization, from the
\* totals, so folding the same transactions in any order yields the
\* realizedPnL of the report.
C6_OrderIndependent ==
  (pc = "done" /\ result.kind = "report") =>
    LET start == [run EXCEPT !.buy_count = 0, !.sell_count = 0,
                             !.total_tokens_bought = Zero, !.total_tokens_sold = Zero,
                             !.total_in_eth = Zero, !.total_out_eth = Zero,
                             !.total_gas_eth = Zero, !.processed_txs = {},
                             !.transactions = <<>>]
    IN  \A hs \in SetOrders(TxHashes) :
          RealizedPnl(FoldAll(start, env, ledger, hs)) = result.realized_pnl_eth

\* a report in which a sell was folded before a buy made at another price
C6_Witness ==
  /\ pc = "done"
  /\ result.kind = "report"
  /\ Len(result.transactions) >= 2
  /\ result.transactions[1].type = "sell"
  /\ result.transactions[2].type = "buy"
  /\ result.realized_pnl_eth # Zero

\* C7: two runs of analyze_pnl over the same transfer batch, ledger data and
\* quotes return identical reports.
C7_Deterministic ==
  (pc = "done" /\ prev # Unset) => result = prev

\* C8: with zero transfers from the feed analyze_pnl returns None, without
\* raising and with no accumulator touched, and it returns None in no other
\* case.
C8_NoActivity ==
  /\ (pc = "done" /\ env.feed = "none") => (result = None /\ run = NoRun)
  /\ result = None => (env.feed = "none" \/ (env.feed = "ok" /\ feed = <<>>))

\* the feed answered 'No transactions found' and the call returned None
C8_Witness ==
  /\ pc = "done"
  /\ env.feed = "none"
  /\ result = None

PriceUnresolved ==
  /\ env.dex = None
  /\ (env.pair \in {Raised, NoPair} \/ env.eth = Raised)

\* C10: when the spot price cannot be resolved, analyze_pnl still returns a
\* full report: current_price_eth is 0.0000001, unrealized PnL is computed
\* against it, and a missing ETH/USD quote is replaced by 2000.
C10_PriceSentinel ==
  (pc = "done" /\ env.feed = "ok" /\ PriceUnresolved) =>
    /\ result.kind = "report"
    /\ result.current_price_eth = R(1, 10000000)
    /\ result.unrealized_pnl_eth =
         IF RGt(result.total_tokens_bought, Zero)
         THEN RSub(RMul(result.current_balance, R(1, 10000000)),
                   RMul(result.current_balance,
                        RDiv(result.total_in_eth, result.total_tokens_bought)))
         ELSE Zero
    /\ (env.eth \in {None, Raised} => result.eth_price_usd = I(2000))

\* a report on a held position made without a token price and without an
\* ETH/USD quote
C10_Witness ==
  /\ pc = "done"
  /\ result.kind = "report"
  /\ PriceUnresolved
  /\ env.eth = Raised
  /\ RGt(result.current_balance, Zero)
  /\ RGt(result.total_tokens_bought, Zero)
  /\ result.unrealized_pnl_eth # Zero

\* C11: in every report costBasisPerToken = valueIn / tokensBought when
\* tokensBought > 0 and 0 otherwise, and realizedPnL = valueOut - tokensSold *
\* costBasisPerToken, for every combination of totals (tokensBought = 0 with
\* valueOut > 0 included).
C11_RealizedFormula ==
  result.kind = "report" =>
    LET costBasisPerToken ==
          IF RGt(result.total_tokens_bought, Zero)
          THEN RDiv(result.total_in_eth, result.total_tokens_bought) ELSE Zero
    IN  /\ CostBasis(run) = costBasisPerToken
        /\ result.realized_pnl_eth =
             RSub(result.total_out_eth,
                  RMul(result.total_tokens_sold, costBasisPerToken))

\* the hashes of ledger L with a tracked-asset leg that touches the wallet
TouchingHashes(L) ==
  {h \in DOMAIN L :
     \E i \in 1..Len(L[h].transfers) :
        /\ L[h].transfers[i].contractAddress = TokenLower
        /\ (L[h].transfers[i].from = WalletLower \/ L[h].transfers[i].to = WalletLower)}

RECURSIVE GasTotal(_, _)
\* gasUsed * gasPrice summed once per hash of hs
GasTotal(L, hs) ==
  IF hs = {} THEN Zero
  ELSE LET h == CHOOSE x \in hs : TRUE
       IN  RAdd(RMul(I(L[h].gasUsed), L[h].gasPrice), GasTotal(L, hs \ {h}))

\* C12: total_gas_eth is the sum of gasUsed * gasPrice over the distinct
\* hashes whose legs touch the wallet and the tracked asset, once per hash
\* whatever the number of legs and the intent.
C12_GasOncePerHash ==
  result.kind = "report" =>
    result.total_gas_eth = GasTotal(ledger, TouchingHashes(ledger))

\* a report over a two-leg transaction of intent unknown and a transaction
\* that does not touch the wallet
C12_Witness ==
  /\ result.kind = "report"
  /\ \E h \in DOMAIN ledger :
        /\ ledger[h].transfers = <<In100, Out40>>
        /\ result.total_gas_eth = RMul(I(ledger[h].gasUsed), ledger[h].gasPrice)
  /\ \E h \in DOMAIN ledger : ledger[h].transfers = <<Hop40>>
  /\ Len(result.transactions) = 1
  /\ result.transactions[1].type = "unknown"

\* the intents the classifier can return for transaction t
IntentsOf(t) ==
  {analyze_transaction_type(t, WalletChecksum, TokenChecksum, o).tx_type :
     o \in SetOrders(PathSet(t))}

\* C13: folding a transaction of intent swap or unknown leaves buy_count,
\* sell_count, total_tokens_bought, total_tokens_sold, total_in_eth and
\* total_out_eth unchanged, and appends the transaction to the report's list
\* tagged with that intent.
C13_SwapUnknownFrame ==
  [][(/\ pc = "fold"
      /\ queue # <<>>
      /\ Head(queue) \in TouchingHashes(ledger)
      /\ IntentsOf(ledger[Head(queue)]) \subseteq {"swap", "unknown"})
     => /\ run'.buy_count = run.buy_count
        /\ run'.sell_count = run.sell_count
        /\ run'.total_tokens_bought = run.total_tokens_bought
        /\ run'.total_tokens_sold = run.total_tokens_sold
        /\ run'.total_in_eth = run.total_in_eth
        /\ run'.total_out_eth = run.total_out_eth
        /\ Len(run'.transactions) = Len(run.transactions) + 1
        /\ run'.transactions[Len(run'.transactions)].hash = Head(queue)
        /\ run'.transactions[Len(run'.transactions)].type
             \in IntentsOf(ledger[Head(queue)])]_vars

\* a buy of 100 units followed by a swap: the report lists both and counts
\* only the buy
C13_Witness ==
  /\ result.kind = "report"
  /\ Len(result.transactions) = 2
  /\ result.transactions[1].type = "buy"
  /\ result.transactions[2].type = "swap"
  /\ result.buy_count = 1
  /\ result.sell_count = 0
  /\ result.total_tokens_bought = I(100)
  /\ result.total_in_eth = I(1)

C15_QuoteMemoized ==
  \A i, j \in 1..Len(calls) :
    (calls[i].fn = "get_eth_price" /\ calls[j].fn = "get_eth_price" /\ i < j
       /\ calls[i].ret \notin {Raised, None})
      => calls[j].ret = calls[i].ret

\* a lookup or decoding step of get_transaction raised for transaction t
LookupRaised(t) ==
  \/ t.txLookup = "raise"
  \/ t.receiptLookup = "raise"
  \/ t.internalLookup = "raise"

\* C16: get_transaction never raises: for every outcome of the transaction,
\* receipt and internal-transfer lookups it returns a record with eth_value,
\* internal_value, tx_type and involved_tokens, and whenever a lookup or
\* decoding step raised, eth_value is the placeholder 0.0001.
C16_NeverRaises ==
  \A h \in DOMAIN ledger :
    resolved[h] # Unset =>
      /\ resolved[h] # Raised
      /\ DOMAIN resolved[h] = {"eth_value", "internal_value", "tx_type", "involved_tokens"}
      /\ LookupRaised(ledger[h]) => resolved[h].eth_value = R(1, 10000)

\* a transaction with a direct value of 1 ETH whose receipt lookup raised was
\* resolved to the placeholder
C16_Witness ==
  \E h \in DOMAIN ledger :
    /\ resolved[h] # Unset
    /\ ledger[h].txLookup = "ok"
    /\ ledger[h].value = I(1)
    /\ ledger[h].receiptLookup = "raise"
    /\ resolved[h].eth_value = R(1, 10000)
    /\ resolved[h].tx_type = "buy"

\* C17: registry lookup is case-insensitive and total: is_stablecoin is true
\* exactly when the lower-cased address is one of the 14 table entries,
\* get_stablecoin_info returns that entry's record then and None otherwise,
\* and no call changes the table.
C17_RegistryLookup ==
  /\ self.stablecoins = InitStablecoins
  /\ Cardinality(DOMAIN self.stablecoins) = 14
  /\ \A i \in 1..Len(calls) :
       calls[i].fn = "is_stablecoin" =>
         /\ calls[i].ret = (Lower(calls[i].address) \in DOMAIN InitStablecoins)
         /\ calls[i].info = IF calls[i].ret
                            THEN InitStablecoins[Lower(calls[i].address)] ELSE None

\* checksummed USDC was found with its record, and WETH was not found
C17_Witness ==
  /\ Len(calls) = 2
  /\ calls[1].fn = "is_stablecoin"
  /\ calls[1].address = UsdcChecksum
  /\ calls[1].ret
  /\ calls[1].info = [symbol |-> "USDC", decimals |-> 6]
  /\ calls[2].fn = "is_stablecoin"
  /\ calls[2].address = weth_address
  /\ ~calls[2].ret
  /\ calls[2].info = None

C19_AscendingFold ==
  /\ \A i, j \in 1..Len(run.transactions) :
       i < j => run.transactions[i].timestamp <= run.transactions[j].timestamp
  /\ \A i, j \in 1..Len(queue) :
       i < j => ledger[queue[i]].timeStamp <= ledger[queue[j]].timeStamp
  /\ \A i \in 1..Len(run.transactions) : \A j \in 1..Len(queue) :
       run.transactions[i].timestamp <= ledger[queue[j]].timeStamp
  /\ pc = "fold" =>
       Len(queue) + Cardinality(run.processed_txs) = Cardinality(DOMAIN run.tx_transfers)

\* the feed delivered the later transaction first and the report lists the
\* earlier one first
C19_Witness ==
  /\ result.kind = "report"
  /\ feed[1].timeStamp = 200
  /\ feed[Len(feed)].timeStamp = 100
  /\ Len(result.transactions) = 2
  /\ result.transactions[1].timestamp = 100
  /\ result.transactions[2].timestamp = 200

\* C20: for every signature of the method table the resolver's tx_type is
\* buy if the signature is in the buy set, sell if it is in the sell set and
\* swap if it is in neither; every signature listed in sell_methods
\* (0x414bf389 and 0xdb3e2198 included) yields sell.
C20_MethodRule ==
  \A h \in DOMAIN ledger :
    (/\ resolved[h] # Unset
     /\ ledger[h].txLookup = "ok"
     /\ ledger[h].input_sig \in InitMethodSignatures)
      => LET sig == ledger[h].input_sig
         IN  /\ sig \in InitSellMethods => resolved[h].tx_type = "sell"
             /\ (sig \in InitBuyMethods /\ sig \notin InitSellMethods)
                  => resolved[h].tx_type = "buy"
             /\ (sig \notin InitBuyMethods /\ sig \notin InitSellMethods)
                  => resolved[h].tx_type = "swap"

\* what get_transaction returns for t when its method signature is not a
\* recognized one (the scanned path plays no part then)
Unsigned(t) ==
  get_transaction(t, <<>>)

\* the recognized stable assets among the involved tokens of t
InvolvedStables(t) ==
  {a \in Range(Unsigned(t).involved_tokens) : a \in DOMAIN InitStablecoins}

\* C21: when the method-signature rule is inconclusive and the wallet has a
\* net outflow of any involved recognized stable asset (not only the first
\* one listed in involved_tokens) while the tracked asset flows in, the intent
\* is buy; with a net inflow while the tracked asset flows out, it is sell.
C21_StableFlowAny ==
  \A h \in DOMAIN ledger : \A i \in 1..Len(classified[h]) :
    LET t == ledger[h]
        legs == CountLegs(ClassifierLegs(t), WalletLower)
    IN  Unsigned(t).tx_type = "unknown" =>
          \A a \in InvolvedStables(t) :
            LET flow == StableFlow(get_token_transaction_transfers(t), a, WalletLower)
            IN  /\ (RLt(flow, Zero) /\ legs.incoming > 0)
                     => classified[h][i].tx_type = "buy"
                /\ (RGt(flow, Zero) /\ legs.outgoing > 0)
                     => classified[h][i].tx_type = "sell"

\* the raw-direction rule of lines 632-644
RawDirection(incoming, outgoing) ==
  IF incoming > 0 /\ outgoing = 0 THEN "buy"
  ELSE IF outgoing > 0 /\ incoming = 0 THEN "sell"
  ELSE "unknown"

\* no involved stable asset has a wallet flow matching the buy or the sell
\* pattern of the stable-asset-flow rule
NoStablePattern(t) ==
  LET legs == CountLegs(ClassifierLegs(t), WalletLower)
  IN  \A a \in InvolvedStables(t) :
        LET flow == StableFlow(get_token_transaction_transfers(t), a, WalletLower)
        IN  /\ ~(RLt(flow, Zero) /\ legs.incoming > 0)
            /\ ~(RGt(flow, Zero) /\ legs.outgoing > 0)

\* C22: whenever the method signature is not a recognized one and the
\* stable-asset-flow rule yields neither buy nor sell (a stable asset may be
\* involved with a wallet flow matching neither pattern), the intent of a
\* transaction with tracked legs is the raw direction: buy if the wallet only
\* receives the tracked asset, sell if it only sends it, unknown if both.
C22_RawFallback ==
  \A h \in DOMAIN ledger : \A i \in 1..Len(classified[h]) :
    LET t == ledger[h]
        legs == CountLegs(ClassifierLegs(t), WalletLower)
    IN  (Unsigned(t).tx_type = "unknown" /\ ClassifierLegs(t) # <<>>
           /\ NoStablePattern(t))
          => classified[h][i].tx_type = RawDirection(legs.incoming, legs.outgoing)

\* C23: the token amount returned by analyze_transaction_type is the sum of
\* the tracked asset's leg amounts in the direction of the returned intent
\* only (legs to the wallet for a buy, legs from the wallet for a sell),
\* whichever rule decided, which is the amount analyze_pnl adds to
\* total_tokens_bought / total_tokens_sold.
C23_DirectionalAmount ==
  \A h \in DOMAIN ledger : \A i \in 1..Len(classified[h]) :
    LET c == classified[h][i]
        legs == get_token_transaction_transfers(ledger[h])
    IN  /\ c.tx_type = "buy"
             => c.token_amount = GroupAmount(legs, "to", WalletChecksum, TokenChecksum)
        /\ c.tx_type = "sell"
             => c.token_amount = GroupAmount(legs, "from", WalletChecksum, TokenChecksum)

\* C24: for a listed transaction classified sell (by any rule of the
\* classifier) whose internal value is positive, the value folded into
\* total_out_eth is the internal value; otherwise, with a zero direct value
\* and a positive internal value it is the internal value, and with a
\* positive direct value it is the direct value alone.
C24_ValuePolicy ==
  \A i \in 1..Len(run.transactions) :
    LET x == run.transactions[i]
        t == ledger[x.hash]
        tv == Unsigned(t)
        direct == IF t.txLookup = "ok" THEN t.value ELSE Zero
    IN  (x.type \in {"buy", "sell"} /\ ~LookupRaised(t)) =>
          IF x.type = "sell" /\ RGt(tv.internal_value, Zero)
          THEN x.eth_value = tv.internal_value
          ELSE IF direct = Zero /\ RGt(tv.internal_value, Zero)
          THEN x.eth_value = tv.internal_value
          ELSE RGt(direct, Zero) => x.eth_value = direct

\* C25: when the value get_transaction resolved for a listed buy (sell) is
\* the nominal placeholder, the amount added to total_in_eth (total_out_eth)
\* is not the placeholder: it is the conversion of the stable-asset amount
\* the wallet paid (received) when that amount is positive, and the token
\* amount times the current price otherwise.
C25_PlaceholderReplaced ==
  \A i \in 1..Len(run.transactions) :
    LET x == run.transactions[i]
        t == ledger[x.hash]
        tv == Unsigned(t)
        side == IF x.type = "buy" THEN "from" ELSE "to"
        paid == IF x.has_stablecoin
                THEN StableOneWay(get_token_transaction_transfers(t),
                                  x.stablecoin_address, side, run.wallet_address)
                ELSE Zero
    IN  (x.type \in {"buy", "sell"} /\ tv.eth_value = Placeholder) =>
          x.eth_value = IF RGt(paid, Zero)
                        THEN convert_stablecoin_to_eth(env, paid, x.stablecoin_address)
                        ELSE RMul(x.token_amount, run.current_price_eth)

\* C26: for every transaction whose receipt on the ledger carries a Transfer
\* log of the tracked asset (every transaction analyze_pnl folds has one),
\* the involved_tokens returned by get_transaction contain the tracked
\* asset's address, whatever the availability of the receipt and whatever
\* the method signature, and contain no address twice.
C26_TrackedInvolved ==
  \A h \in DOMAIN ledger :
    (resolved[h] # Unset /\ TokenLower \in Range(ledger[h].logs)) =>
      /\ TokenLower \in Range(resolved[h].involved_tokens)
      /\ Distinct(resolved[h].involved_tokens) = resolved[h].involved_tokens

\* C27 as stated: when the transaction lookup succeeded and reported a direct
\* value v > 0, get_transaction returns eth_value = v (or the internal value
\* under the sell rule) whether the receipt and internal-transfer lookups
\* answered, were missing or failed, never the placeholder.
C27_DirectValueSurvives ==
  \A h \in DOMAIN ledger :
    LET t == ledger[h]
        r == resolved[h]
    IN  (r # Unset /\ t.txLookup = "ok" /\ RGt(t.value, Zero)) =>
          r.eth_value = IF r.tx_type = "sell" /\ RGt(r.internal_value, Zero)
                        THEN r.internal_value ELSE t.value

\* C27 amended: when the transaction lookup succeeded and reported a direct
\* value v > 0, a receipt or internal-transfer lookup that answers with no
\* usable data keeps it: eth_value = v (or the internal value under the sell
\* rule); a receipt or internal-transfer request that raises loses it:
\* eth_value is the placeholder.
C27_DirectValueKeptUnlessRaise ==
  \A h \in DOMAIN ledger :
    LET t == ledger[h]
        r == resolved[h]
    IN  (r # Unset /\ t.txLookup = "ok" /\ RGt(t.value, Zero)) =>
          r.eth_value = IF LookupRaised(t) THEN Placeholder
                        ELSE IF r.tx_type = "sell" /\ RGt(r.internal_value, Zero)
                        THEN r.internal_value ELSE t.value

\* a transaction with a positive direct value was resolved to that value
\* although its receipt was missing
C27_Witness ==
  \E h \in DOMAIN ledger :
    /\ resolved[h] # Unset
    /\ ledger[h].txLookup = "ok"
    /\ RGt(ledger[h].value, Zero)
    /\ ledger[h].receiptLookup = "missing"
    /\ ledger[h].internalLookup = "missing"
    /\ resolved[h].eth_value = ledger[h].value

\* C28: every transaction counted as a buy adds a strictly positive amount to
\* total_tokens_bought (the wallet has an incoming tracked leg in it), and
\* every transaction counted as a sell adds a strictly positive amount to
\* total_tokens_sold.
C28_PositiveTrade ==
  /\ \A i \in 1..Len(run.transactions) :
       run.transactions[i].type \in {"buy", "sell"}
         => RGt(run.transactions[i].token_amount, Zero)
  /\ run.buy_count > 0 => RGt(run.total_tokens_bought, Zero)
  /\ run.sell_count > 0 => RGt(run.total_tokens_sold, Zero)

(***************************************************************************)
(* Malformed feed fields: the legs of a transaction may carry a field that  *)
(* int() / float() cannot parse.                                            *)
(***************************************************************************)
\* which field of a transaction's feed legs does not parse
MalformedKinds ==
  {"none", "value", "gasUsed", "timeStamp"}

\* a buy, a sell and a transaction with both legs at time ts, each with every
\* kind of malformed field
MalformedTx(ts) ==
  {Tx(ts, x[1], "", <<>>, <<TokenLower>>, x[2], x[3]) @@ [malformed |-> m] :
     x \in {<<I(1), <<>>, <<In100>>>>,
            <<Zero, <<R(6, 10)>>, <<Out40>>>>,
            <<Zero, <<>>, <<In100, Out40>>>>},
     m \in MalformedKinds}

MalformedLedgers ==
  {L \in [TxHashes -> UNION {MalformedTx(100 * i) : i \in 1..MaxTx}] :
     \A i \in 1..MaxTx : L[HashSeq[i]].timeStamp = 100 * i}

\* the wallet has a tracked leg in direction side in tx_group
HasLeg(tx_group, side, wallet_address, token_address) ==
  \E i \in 1..Len(tx_group) :
     /\ Lower(tx_group[i][side]) = Lower(wallet_address)
     /\ Lower(tx_group[i].contractAddress) = Lower(token_address)

\* one iteration of the loop (lines 760-929) over legs that may be malformed:
\* int(gasUsed) raises at line 791 before anything is updated; float(value)
\* raises at line 832 / 880, after total_gas_eth (line 794) and buy_count /
\* sell_count (lines 826, 874) were updated; the handler of lines 926-927
\* only prints
FoldTxChecked(r, e, t, h, order) ==
  LET tx_group == r.tx_transfers[h]
      cls == analyze_transaction_type(t, r.wallet_address, r.token_address, order)
      r1 == [r EXCEPT !.total_gas_eth = RAdd(@, GasCost(tx_group))]
  IN  IF h \in r.processed_txs \/ ~IsRelevant(tx_group, r.wallet_address, r.token_address)
      THEN FoldTx(r, e, t, h, order)
      ELSE IF t.malformed = "gasUsed" THEN r
      ELSE IF t.malformed = "value" /\ cls.tx_type = "buy"
              /\ HasLeg(tx_group, "to", r.wallet_address, r.token_address)
      THEN [r1 EXCEPT !.buy_count = @ + 1]
      ELSE IF t.malformed = "value" /\ cls.tx_type = "sell"
              /\ HasLeg(tx_group, "from", r.wallet_address, r.token_address)
      THEN [r1 EXCEPT !.sell_count = @ + 1]
      ELSE FoldTx(r, e, t, h, order)

\* processing transaction t inside the loop raises
RaisesInLoop(t) ==
  \/ t.malformed = "gasUsed"
  \/ /\ t.malformed = "value"
     /\ ClassifierLegs(t) # <<>>
     /\ RawDirection(CountLegs(ClassifierLegs(t), WalletLower).incoming,
                     CountLegs(ClassifierLegs(t), WalletLower).outgoing) # "unknown"

\* sorted(transfers, key=int(timeStamp)) at line 742 raises
SortRaises(L) ==
  \E h \in DOMAIN L : L[h].malformed = "timeStamp"

\* lines 672-756 over legs that may be malformed: the sort of line 742 is
\* outside the per-transaction try, so its exception reaches the handler of
\* lines 1000-1004, which raises
AnalyzeStartChecked ==
  IF SortRaises(ledger)
  THEN /\ pc = "idle"
       /\ pc' = "done"
       /\ result' = Raised
       /\ UNCHANGED <<self, ledger, feed, env, run, queue, prev, resolved, classified, calls, web>>
  ELSE AnalyzeStart

ProcessTxChecked ==
  /\ pc = "fold"
  /\ queue # <<>>
  /\ \E order \in SetOrders(PathSet(ledger[Head(queue)])) :
        run' = FoldTxChecked(run, env, ledger[Head(queue)], Head(queue), order)
  /\ queue' = Tail(queue)
  /\ UNCHANGED <<self, ledger, feed, env, pc, result, prev, resolved, classified, calls, web>>

InitMalformed ==
  /\ ledger \in MalformedLedgers
  /\ feed = FeedOf(ledger, HashSeq)
  /\ env \in {x \in EnvSet : x.feed = "ok" /\ x.balance = "ok" /\ x.dex # None
                              /\ x.eth \notin {None, Raised}}
  /\ InitRest

NextMalformed ==
  \/ AnalyzeStartChecked
  \/ ProcessTxChecked
  \/ Finalize

SpecMalformed ==
  InitMalformed /\ [][NextMalformed]_vars

\* the run as it stands when only the transactions whose processing does not
\* raise have been folded, in the order of the loop
FoldedWithout(L) ==
  LET transfers == SortedTransfers(feed)
      start == StartRun(env, L, to_checksum_address(WalletLower),
                        to_checksum_address(TokenLower), transfers)
      good == SelectSeq(GroupKeys(transfers), LAMBDA h : ~RaisesInLoop(L[h]))
  IN  FoldAll(start, env, L, good)

\* C29: a transaction whose processing raises (a leg with a malformed value,
\* gas or timestamp field) is skipped as a whole: once the analysis is over
\* it has returned a report, and the counters, totals and the transactions
\* list are those of the fold of the remaining transactions alone.
C29_AtomicSkip ==
  pc = "done" =>
    /\ result # Raised
    /\ run = FoldedWithout(ledger)

(***************************************************************************)
(* The web handler app.analyze: requests served by concurrent threads of   *)
(* one process, which share os.environ.                                    *)
(***************************************************************************)
\* the API keys the clients put in their forms
ApiKeys ==
  {"KEY_A", "KEY_B"}

\* a request that has arrived and not run yet; form_key is the etherscan_key
\* field of its form
NewRequest(k) ==
  [at |-> "start", form_key |-> k, etherscan_key |-> "", etherscan_api_key |-> "",
   used_key |-> ""]

\* app.py lines 16-18: the handler reads the form
ReadForm ==
  \E r \in DOMAIN web.requests :
    /\ web.requests[r].at = "start"
    /\ web' = [web EXCEPT !.requests[r].at = "read",
                          !.requests[r].etherscan_key = web.requests[r].form_key]
    /\ UNCHANGED <<self, ledger, feed, env, pc, run, queue, result, prev, resolved, classified, calls>>

\* app.py line 21: os.environ['ETHERSCAN_API_KEY'] = etherscan_key
SetEnviron ==
  \E r \in DOMAIN web.requests :
    /\ web.requests[r].at = "read"
    /\ web' = [web EXCEPT !.requests[r].at = "envset",
                          !.environ = web.requests[r].etherscan_key]
    /\ UNCHANGED <<self, ledger, feed, env, pc, run, queue, result, prev, resolved, classified, calls>>

\* app.py line 24, TokenPnLAnalyzer.__init__ line 45:
\* self.etherscan_api_key = os.getenv('ETHERSCAN_API_KEY')
Construct ==
  \E r \in DOMAIN web.requests :
    /\ web.requests[r].at = "envset"
    /\ web' = [web EXCEPT !.requests[r].at = "built",
                          !.requests[r].etherscan_api_key = web.environ]
    /\ UNCHANGED <<self, ledger, feed, env, pc, run, queue, result, prev, resolved, classified, calls>>

\* app.py line 27: analyze_pnl sends the analyzer's key with its requests
RunAnalysis ==
  \E r \in DOMAIN web.requests :
    /\ web.requests[r].at = "built"
    /\ web' = [web EXCEPT !.requests[r].at = "done",
                          !.requests[r].used_key = web.requests[r].etherscan_api_key]
    /\ UNCHANGED <<self, ledger, feed, env, pc, run, queue, result, prev, resolved, classified, calls>>

InitWeb ==
  /\ ledger \in [{"T1"} -> {ScenarioBuyAt(100)}]
  /\ feed = <<>>
  /\ env \in {x \in EnvSet : x.feed = "none"}
  /\ self = InitSelf
  /\ pc = "idle"
  /\ run = NoRun
  /\ queue = <<>>
  /\ result = Unset
  /\ prev = Unset
  /\ resolved = [h \in DOMAIN ledger |-> Unset]
  /\ classified = [h \in DOMAIN ledger |-> <<>>]
  /\ calls = <<>>
  /\ \E keys \in [1..MaxRequests -> ApiKeys] :
        web = [environ |-> "", requests |-> [r \in 1..MaxRequests |-> NewRequest(keys[r])]]

NextWeb ==
  \/ ReadForm
  \/ SetEnviron
  \/ Construct
  \/ RunAnalysis

SpecWeb ==
  InitWeb /\ [][NextWeb]_vars

\* C30: each /analyze request is analyzed with the API key supplied in that
\* same request: whatever the interleaving of concurrent requests carrying
\* different keys, the analyzer built for a request holds, and the analysis
\* uses, the key of that request's own form.
C30_OwnKey ==
  \A r \in DOMAIN web.requests :
    /\ web.requests[r].at \in {"built", "done"}
         => web.requests[r].etherscan_api_key = web.requests[r].form_key
    /\ web.requests[r].at = "done"
         => web.requests[r].used_key = web.requests[r].form_key

====
